---- MODULE Spec2Model ----
(***************************************************************************)
(* A state-machine model of the robot face for a MAX7219 LED matrix.       *)
(*                                                                         *)
(* The repository holds two programs that drive the display:               *)
(*   - the monolithic RobotFace of robot_face.py (own catalog, canvas on   *)
(*     a luma viewport, interpolated transitions, TalkState talking), run  *)
(*     by the __main__ block, which clears the display on Ctrl-C;          *)
(*   - the component classes MatrixDisplay (display.py),                   *)
(*     FacialExpressions (expressions.py) and SpeechEngine (speech.py).    *)
(* prog says which of the two a behaviour is about.                        *)
(*                                                                         *)
(* Every animation is a blocking loop "draw a frame, time.sleep".  A state *)
(* with status = "sleeping" is a call suspended in time.sleep after a      *)
(* frame; an action runs the code from one sleep to the next.  Times are   *)
(* exact rationals <<n, d>> (seconds); the clock advances by each sleep.   *)
(***************************************************************************)
EXTENDS Integers, Sequences, FiniteSets, TLC

VARIABLES
    prog,        \* "RobotFace" or "Components": the program the behaviour is about
    expressions, \* self.expressions: the catalog held by the RobotFace or FacialExpressions object
    status,      \* "ready" (no call running), "sleeping" (a call is in time.sleep),
                 \* "done" (the call has just ended), "interrupted"
    call,        \* the running call, or the last one: its name and arguments
    outcome,     \* how the last call ended: "none", "returned" or the exception raised
    display,     \* the image the device shows: the primitives of the last canvas pushed
    lastDraw,    \* the images pushed to the device by the latest draw, in order
    position,    \* the x offset of RobotFace's viewport
    contrast,    \* the value last written to device.contrast, <<>> if none was
    i,           \* the loop index of the running call
    hold,        \* step_duration / state_duration / viseme_time of the running call
    end_time,    \* the talk loop's end_time, on a clock that is 0 when the call starts
    viseme_seq,  \* say_phrase's viseme_seq
    shape,       \* the TalkState or viseme of the last talk frame, "none" otherwise
    nframes,     \* frames drawn by the call so far
    nsleeps,     \* time.sleep calls made by the call so far
    lastSleep,   \* the argument of the call's latest time.sleep
    slept        \* the sum of the call's sleeps: the clock

vars == <<prog, expressions, status, call, outcome, display, lastDraw, position, contrast,
          i, hold, end_time, viseme_seq, shape, nframes, nsleeps, lastSleep, slept>>

(***************************************************************************)
(* Bounds of the model.                                                    *)
(***************************************************************************)
\* largest step count passed to a transition
MaxSteps == 3
\* longest phrase passed to say_phrase, in characters
MaxPhraseLen == 2

(***************************************************************************)
(* Rational numbers <<n, d>> with d > 0, in lowest terms.                  *)
(***************************************************************************)
Abs(x) == IF x < 0 THEN 0 - x ELSE x

RECURSIVE GCD(_, _)
GCD(a, b) == IF b = 0 THEN a ELSE GCD(b, a % b)

Rat(n, d) ==
    LET g == GCD(Abs(n), d)
    IN  IF n = 0 THEN <<0, 1>> ELSE <<n \div g, d \div g>>

RatAdd(a, b) == Rat(a[1] * b[2] + b[1] * a[2], a[2] * b[2])
RatLess(a, b) == a[1] * b[2] < b[1] * a[2]
\* a / k for an integer k > 0
RatDivInt(a, k) == Rat(a[1], a[2] * k)
Zero == Rat(0, 1)

(***************************************************************************)
(* face_types.py                                                           *)
(***************************************************************************)
ExpressionType == {"HAPPY", "SAD", "SURPRISED", "WINK", "NEUTRAL", "ANGRY", "SLEEPING"}
TalkState == {"OPEN", "CLOSED", "PARTIAL"}
\* talk_lines = None
NoTalk == [s \in {} |-> <<>>]

\* Expression(name, points, lines, talk_lines, duration)
Expression(points, lines, talk_lines) ==
    [points |-> points, lines |-> lines, talk_lines |-> talk_lines, duration |-> Rat(1, 1)]

\* a line segment ((x1, y1), (x2, y2))
L(x1, y1, x2, y2) == <<<<x1, y1>>, <<x2, y2>>>>

(***************************************************************************)
(* The catalog of RobotFace (robot_face.py).                               *)
(***************************************************************************)
RobotFace_expressions ==
    [e \in ExpressionType |->
        CASE e = "HAPPY" ->
                Expression(<< <<2, 2>>, <<5, 2>> >>,
                           << L(1,5,6,5), L(2,6,5,6) >>,
                           [s \in TalkState |->
                               CASE s = "OPEN" -> << L(1,5,6,5), L(2,6,5,6), L(3,4,4,4) >>
                                 [] s = "CLOSED" -> << L(1,5,6,5), L(2,6,5,6) >>
                                 [] s = "PARTIAL" -> << L(1,5,6,5), L(2,6,5,6), L(3,5,4,5) >>])
          [] e = "SAD" ->
                Expression(<< <<2, 2>>, <<5, 2>> >>,
                           << L(1,5,6,5), L(2,4,5,4) >>, NoTalk)
          [] e = "SURPRISED" ->
                Expression(<< <<2, 2>>, <<5, 2>> >>,
                           << L(3,5,4,5), L(3,6,4,6) >>, NoTalk)
          [] e = "WINK" ->
                Expression(<< <<5, 2>> >>,
                           << L(2,2,2,2), L(1,5,6,5), L(2,6,5,6) >>, NoTalk)
          [] e = "NEUTRAL" ->
                Expression(<< <<2, 2>>, <<5, 2>> >>,
                           << L(2,5,5,5) >>,
                           [s \in TalkState |->
                               CASE s = "OPEN" -> << L(2,4,5,4) >>
                                 [] s = "CLOSED" -> << L(2,5,5,5) >>
                                 [] s = "PARTIAL" -> << L(2,4,5,4), L(2,5,5,5) >>])
          [] e = "ANGRY" ->
                Expression(<< <<2, 2>>, <<5, 2>> >>,
                           << L(1,5,6,5), L(2,4,3,4), L(4,4,5,4) >>, NoTalk)
          [] e = "SLEEPING" ->
                Expression(<< <<5, 2>> >>,
                           << L(1,2,3,2), L(2,5,5,5) >>, NoTalk)]

(***************************************************************************)
(* The catalog of FacialExpressions (expressions.py): every expression is  *)
(* lines only; the eyes come from the create_eye_* helpers.                *)
(***************************************************************************)
create_eye_happy(x, y) ==
    << L(x, y, x + 2, y), L(x, y + 1, x + 2, y + 1), L(x, y, x, y + 1), L(x + 2, y, x + 2, y + 1) >>
create_eye_sad(x, y) ==
    << L(x, y, x + 2, y), L(x, y + 1, x + 2, y + 1), L(x, y, x, y + 1), L(x + 2, y, x + 2, y + 1),
       L(x + 1, y + 2, x + 1, y + 2) >>
create_eye_surprised(x, y) ==
    << L(x, y, x + 2, y), L(x, y + 1, x + 2, y + 1), L(x, y, x, y + 1), L(x + 2, y, x + 2, y + 1),
       L(x + 1, y + 2, x + 1, y + 2) >>
create_eye_wink(x, y) == << L(x, y + 1, x + 2, y + 1) >>
create_eye_neutral(x, y) == << L(x + 1, y + 1, x + 1, y + 1) >>
create_eye_angry(x, y) == << L(x, y, x + 2, y + 1), L(x + 1, y, x + 1, y + 1) >>
create_eye_sleeping(x, y) ==
    << L(x, y + 1, x + 2, y + 1), L(x + 1, y, x + 2, y), L(x, y + 2, x + 1, y + 2) >>

left_pos == 0
right_pos == 5
y_pos == 1

\* the eyes of an expression: left eye, then right eye
Eyes(e) ==
    CASE e = "HAPPY" -> create_eye_happy(left_pos, y_pos) \o create_eye_happy(right_pos, y_pos)
      [] e = "SAD" -> create_eye_sad(left_pos, y_pos) \o create_eye_sad(right_pos, y_pos)
      [] e = "SURPRISED" -> create_eye_surprised(left_pos, y_pos) \o create_eye_surprised(right_pos, y_pos)
      [] e = "WINK" -> create_eye_wink(left_pos, y_pos) \o create_eye_happy(right_pos, y_pos)
      [] e = "NEUTRAL" -> create_eye_neutral(left_pos, y_pos) \o create_eye_neutral(right_pos, y_pos)
      [] e = "ANGRY" -> create_eye_angry(left_pos, y_pos) \o create_eye_angry(right_pos, y_pos)
      [] e = "SLEEPING" -> create_eye_sleeping(left_pos, y_pos) \o create_eye_sleeping(right_pos, y_pos)

\* the static mouth of an expression (the lines after the eyes)
StaticMouth(e) ==
    CASE e = "HAPPY" -> << L(1,6,6,6), L(2,7,5,7), L(1,6,2,7), L(5,7,6,6) >>
      [] e = "SAD" -> << L(1,6,6,6), L(1,6,2,5), L(5,5,6,6) >>
      [] e = "SURPRISED" -> << L(2,6,5,6), L(2,7,5,7), L(2,6,2,7), L(5,6,5,7) >>
      [] e = "WINK" -> << L(1,6,6,6), L(1,6,2,7), L(5,7,6,6) >>
      [] e = "NEUTRAL" -> << L(2,6,5,6) >>
      [] e = "ANGRY" -> << L(1,6,6,6), L(2,5,3,5), L(4,5,5,5), L(1,6,2,5), L(5,5,6,6) >>
      [] e = "SLEEPING" -> << L(2,6,5,6) >>

\* the mouth of talk_lines[s] (the lines after the eyes)
TalkMouth(e, s) ==
    CASE e = "HAPPY" /\ s = "OPEN" -> << L(1,5,2,5), L(5,5,6,5), L(1,6,2,6), L(5,6,6,6), L(1,5,2,6), L(5,6,6,5) >>
      [] e = "HAPPY" /\ s = "CLOSED" -> << L(1,6,6,6), L(2,7,5,7), L(1,6,2,7), L(5,7,6,6) >>
      [] e = "HAPPY" /\ s = "PARTIAL" -> << L(1,6,6,6), L(2,7,5,7), L(1,6,2,7), L(5,7,6,6), L(1,5,2,5), L(5,5,6,5) >>
      [] e = "SAD" /\ s = "OPEN" -> << L(1,5,2,5), L(5,5,6,5), L(1,6,2,6), L(5,6,6,6), L(1,5,2,6), L(5,6,6,5) >>
      [] e = "SAD" /\ s = "CLOSED" -> << L(1,6,6,6), L(1,6,2,5), L(5,5,6,6) >>
      [] e = "SAD" /\ s = "PARTIAL" -> << L(1,6,6,6), L(1,6,2,5), L(5,5,6,6), L(1,5,2,5), L(5,5,6,5) >>
      [] e = "SURPRISED" /\ s = "OPEN" -> << L(2,5,3,5), L(4,5,5,5), L(2,6,3,6), L(4,6,5,6), L(2,5,2,6), L(5,5,5,6) >>
      [] e = "SURPRISED" /\ s = "CLOSED" -> << L(2,6,5,6), L(2,7,5,7), L(2,6,2,7), L(5,6,5,7) >>
      [] e = "SURPRISED" /\ s = "PARTIAL" -> << L(2,6,5,6), L(2,7,5,7), L(2,6,2,7), L(5,6,5,7), L(2,5,3,5), L(4,5,5,5) >>
      [] e = "WINK" /\ s = "OPEN" -> << L(1,5,2,5), L(5,5,6,5), L(1,6,2,6), L(5,6,6,6), L(1,5,2,6), L(5,6,6,5) >>
      [] e = "WINK" /\ s = "CLOSED" -> << L(1,6,6,6), L(1,6,2,7), L(5,7,6,6) >>
      [] e = "WINK" /\ s = "PARTIAL" -> << L(1,6,6,6), L(2,7,5,7), L(1,6,2,7), L(5,7,6,6), L(1,5,2,5), L(5,5,6,5) >>
      [] e = "NEUTRAL" /\ s = "OPEN" -> << L(2,5,3,5), L(4,5,5,5) >>
      [] e = "NEUTRAL" /\ s = "CLOSED" -> << L(2,6,5,6) >>
      [] e = "NEUTRAL" /\ s = "PARTIAL" -> << L(2,5,3,5), L(4,5,5,5), L(2,6,5,6) >>
      [] e = "ANGRY" /\ s = "OPEN" -> << L(1,5,2,5), L(5,5,6,5), L(1,6,2,6), L(5,6,6,6), L(1,5,2,6), L(5,6,6,5) >>
      [] e = "ANGRY" /\ s = "CLOSED" -> << L(1,6,6,6), L(2,5,3,5), L(4,5,5,5), L(1,6,2,5), L(5,5,6,6) >>
      [] e = "ANGRY" /\ s = "PARTIAL" -> << L(1,6,6,6), L(2,5,3,5), L(4,5,5,5), L(1,6,2,5), L(5,5,6,6), L(1,5,2,5), L(5,5,6,5) >>
      [] e = "SLEEPING" /\ s = "OPEN" -> << L(2,5,3,5), L(4,5,5,5) >>
      [] e = "SLEEPING" /\ s = "CLOSED" -> << L(2,6,5,6) >>
      [] e = "SLEEPING" /\ s = "PARTIAL" -> << L(2,5,3,5), L(4,5,5,5), L(2,6,5,6) >>

FacialExpressions_expressions ==
    [e \in ExpressionType |->
        Expression(<<>>, Eyes(e) \o StaticMouth(e),
                   [s \in TalkState |-> Eyes(e) \o TalkMouth(e, s)])]

(***************************************************************************)
(* speech.py: the viseme tables.                                           *)
(***************************************************************************)
Visemes == {"closed", "wide", "round", "teeth", "open", "neutral"}

VISEME_MOUTHS ==
    [v \in Visemes |->
        CASE v = "closed" -> << L(2,7,5,7), L(2,6,5,6) >>
          [] v = "wide" -> << L(1,7,2,6), L(2,6,3,5), L(3,5,4,5), L(4,5,5,6), L(5,6,6,7), L(2,7,5,7) >>
          [] v = "round" -> << L(3,5,4,5), L(3,7,4,7), L(3,5,3,7), L(4,5,4,7), L(2,6,5,6) >>
          [] v = "teeth" -> << L(2,6,5,6), L(2,7,5,7), L(2,5,5,5) >>
          [] v = "open" -> << L(2,5,2,7), L(5,5,5,7), L(2,7,5,7), L(2,5,5,5) >>
          [] v = "neutral" -> << L(2,6,5,6) >>]

\* the keys of LETTER_TO_VISEME, by value
ClosedLetters == {"M", "B", "P", "m", "b", "p"}
WideLetters == {"A", "E", "I", "a", "e", "i"}
RoundLetters == {"O", "U", "W", "o", "u", "w"}
TeethLetters == {"F", "V", "f", "v"}
OpenLetters == {"C", "D", "G", "K", "N", "S", "Z", "L", "Q", "X", "H", "J", "R", "T",
                "c", "d", "g", "k", "n", "s", "z", "l", "q", "x", "h", "j", "r", "t"}

LETTER_TO_VISEME ==
    [c \in ClosedLetters \cup WideLetters \cup RoundLetters \cup TeethLetters \cup OpenLetters |->
        CASE c \in ClosedLetters -> "closed"
          [] c \in WideLetters -> "wide"
          [] c \in RoundLetters -> "round"
          [] c \in TeethLetters -> "teeth"
          [] c \in OpenLetters -> "open"]

(***************************************************************************)
(* The inputs of the calls.                                                *)
(***************************************************************************)
\* an expression_type argument: the seven identifiers and one that is not in any catalog
Ids == ExpressionType \cup {"UNKNOWN"}
StepCounts == (0 - 1)..MaxSteps
Durations == {Rat(0, 1), Rat(1, 2), Rat(1, 1)}
\* the duration argument of a transition
TransitionDurations == {Rat(1, 2), Rat(1, 1)}
\* an Optional[float] argument: <<>> is None
OptDurations == {<<>>} \cup {<<d>> : d \in Durations}
Wpms == {0, 60, 150}
Levels == {0 - 1, 0, 7, 15, 16}
Chars == {"H", "i", "7", " ", "!"}
Phrases == UNION {[1..n -> Chars] : n \in 0..MaxPhraseLen}

\* the letters A-Z, and a-z in the same order
UpperLetters ==
    <<"A", "B", "C", "D", "E", "F", "G", "H", "I", "J", "K", "L", "M", "N", "O", "P", "Q", "R", "S", "T", "U", "V", "W", "X", "Y", "Z">>
LowerLetters ==
    <<"a", "b", "c", "d", "e", "f", "g", "h", "i", "j", "k", "l", "m", "n", "o", "p", "q", "r", "s", "t", "u", "v", "w", "x", "y", "z">>
Upper == {UpperLetters[k] : k \in 1..Len(UpperLetters)}
Lower == {LowerLetters[k] : k \in 1..Len(LowerLetters)}
Digits == {"0", "1", "2", "3", "4", "5", "6", "7", "8", "9"}
\* str.isalnum and str.isspace on the characters of the model
isalnum(c) == c \in Upper \cup Lower \cup Digits
isspace(c) == c = " "

\* len(phrase.split()): the number of maximal runs of non-space characters
WordCount(phrase) ==
    Cardinality({k \in 1..Len(phrase) :
                    /\ ~isspace(phrase[k])
                    /\ (k = 1 \/ isspace(phrase[k - 1]))})

CallOf(op, e, to, steps, duration, scroll, wpm, phrase, level) ==
    [op |-> op, expr |-> e, to |-> to, steps |-> steps, duration |-> duration,
     scroll |-> scroll, wpm |-> wpm, phrase |-> phrase, level |-> level]
NoCall == CallOf("none", "", "", 0, <<>>, FALSE, 0, <<>>, 0)

Errors == {"ValueError", "ZeroDivisionError"}

(***************************************************************************)
(* Images.  An image is the primitives drawn on one canvas; leaving the    *)
(* canvas block pushes the image to the device.                            *)
(***************************************************************************)
\* points: the pixels set by draw.point; lines: the segments the canvas handles, in order;
\* filled: the positions in lines of the segments that are drawn by draw.rectangle (the
\* filled box spanned by the endpoints) and not by draw.line
Frame(points, lines) == [points |-> points, lines |-> lines, filled |-> {}]
Blank == Frame(<<>>, <<>>)

Min(a, b) == IF a < b THEN a ELSE b
Max(a, b) == IF a < b THEN b ELSE a

(***************************************************************************)
(* How an action leaves the bookkeeping of a call.                         *)
(***************************************************************************)
Locals(idx, h, et, vs) ==
    /\ i' = idx
    /\ hold' = h
    /\ end_time' = et
    /\ viseme_seq' = vs

NoLocals == Locals(0, Zero, Zero, <<>>)

\* device.display of each image of imgs, in order
Push(imgs) ==
    /\ display' = imgs[Len(imgs)]
    /\ lastDraw' = imgs

\* the call's first frame (first) or a further one, then time.sleep(d)
FrameAndSleep(first, imgs, tag, d) ==
    /\ Push(imgs)
    /\ shape' = tag
    /\ nframes' = (IF first THEN 0 ELSE nframes) + 1
    /\ nsleeps' = (IF first THEN 0 ELSE nsleeps) + 1
    /\ lastSleep' = d
    /\ slept' = RatAdd(IF first THEN Zero ELSE slept, d)
    /\ status' = "sleeping"
    /\ outcome' = "none"

\* the call ends at once, having drawn and slept nothing
EndAtOnce(how) ==
    /\ status' = "done"
    /\ outcome' = how
    /\ NoLocals
    /\ shape' = "none"
    /\ nframes' = 0
    /\ nsleeps' = 0
    /\ lastSleep' = Zero
    /\ slept' = Zero

\* a running call returns after its last sleep
Return ==
    /\ status' = "done"
    /\ outcome' = "returned"
    /\ UNCHANGED <<prog, expressions, call, display, lastDraw, position, contrast, i, hold, end_time,
                   viseme_seq, shape, nframes, nsleeps, lastSleep, slept>>

(***************************************************************************)
(* RobotFace (robot_face.py).                                              *)
(***************************************************************************)
\* self.device.width of the default RobotFace(): one 8x8 block
Width == 8

\* _draw_expression: one canvas holding the points, then the lines
RobotFace_draw_expression(expression) == Frame(expression.points, expression.lines)

\* int(q) for the rational q = n / d, d > 0: truncation towards zero
Trunc(n, d) == IF n >= 0 THEN n \div d ELSE 0 - ((0 - n) \div d)

\* an interpolation with a misplaced parenthesis: int((a + (b - a)) * progress)
Interpolate_scaled(a, b, k, steps) == Trunc((a + (b - a)) * k, steps)

\* an interpolation whose progress is (i + 1) / steps
Interpolate_ahead(a, b, k, steps) == Trunc(a * steps + (b - a) * (k + 1), steps)

\* int(a + (b - a) * progress) with progress = k / steps
Interpolate(a, b, k, steps) == Trunc(a * steps + (b - a) * k, steps)

InterpolatePoint(p1, p2, k, steps) ==
    <<Interpolate(p1[1], p2[1], k, steps), Interpolate(p1[2], p2[2], k, steps)>>

\* the canvas of one iteration of animate_transition's loop: zip() pairs the
\* primitives by position and stops at the shorter sequence
TransitionFrame(from, to, k, steps) ==
    Frame([n \in 1..Min(Len(from.points), Len(to.points)) |->
              InterpolatePoint(from.points[n], to.points[n], k, steps)],
          IF from.lines # <<>> /\ to.lines # <<>>
          THEN [n \in 1..Min(Len(from.lines), Len(to.lines)) |->
                   <<InterpolatePoint(from.lines[n][1], to.lines[n][1], k, steps),
                     InterpolatePoint(from.lines[n][2], to.lines[n][2], k, steps)>>]
          ELSE <<>>)

\* a talking draw that leaves the points (the eyes) out
RobotFace_draw_talking_expression_no_points(expression, talk_state) ==
    Frame(<<>>,
          IF talk_state \in DOMAIN expression.talk_lines
          THEN expression.talk_lines[talk_state]
          ELSE expression.lines)

\* _draw_talking_expression: the points, then talk_lines[talk_state], or the
\* static lines when the expression has no such variant
RobotFace_draw_talking_expression(expression, talk_state) ==
    Frame(expression.points,
          IF talk_state \in DOMAIN expression.talk_lines
          THEN expression.talk_lines[talk_state]
          ELSE expression.lines)

\* a talk() that lacks the check of talk_lines
SupportsTalking_unchecked(expression) == TRUE

\* talk()'s check "if not expression.talk_lines: raise ValueError"
SupportsTalking(expression) == DOMAIN expression.talk_lines # {}

\* a range check that is off by one at its upper end
ValidIntensity_upto16(intensity) == 0 <= intensity /\ intensity <= 16

\* set_brightness()'s check "if not 0 <= intensity <= 15: raise ValueError"
ValidIntensity(intensity) == 0 <= intensity /\ intensity <= 15

\* the argument of device.contrast()
ContrastOf(intensity) == intensity * 16

RobotFace_display_expression(expression_type, duration, scroll) ==
    /\ prog = "RobotFace"
    /\ status = "ready"
    /\ call' = CallOf("display_expression", expression_type, "", 0, duration, scroll, 0, <<>>, 0)
    /\ UNCHANGED <<prog, expressions, contrast>>
    /\ IF expression_type \notin DOMAIN expressions
       THEN /\ EndAtOnce("ValueError")
            /\ UNCHANGED <<display, lastDraw, position>>
       ELSE LET expression == expressions[expression_type]
                display_duration == IF duration # <<>> THEN duration[1] ELSE expression.duration
            IN  IF scroll
                THEN /\ position' = 0
                     /\ FrameAndSleep(TRUE, <<RobotFace_draw_expression(expression)>>, "none", Rat(1, 10))
                     /\ Locals(1, Zero, Zero, <<>>)
                ELSE /\ UNCHANGED position
                     /\ FrameAndSleep(TRUE, <<RobotFace_draw_expression(expression)>>, "none", display_duration)
                     /\ Locals(0, Zero, Zero, <<>>)

\* a scroll that also stops once the display duration has passed
RobotFace_display_expression_wake_timed ==
    /\ prog = "RobotFace"
    /\ status = "sleeping"
    /\ call.op = "display_expression"
    /\ IF /\ call.scroll
          /\ i < Width
          /\ RatLess(slept, IF call.duration # <<>>
                            THEN call.duration[1]
                            ELSE expressions[call.expr].duration)
       THEN /\ position' = i
            /\ FrameAndSleep(FALSE, <<RobotFace_draw_expression(expressions[call.expr])>>,
                             "none", Rat(1, 10))
            /\ Locals(i + 1, Zero, Zero, <<>>)
            /\ UNCHANGED <<prog, expressions, call, contrast>>
       ELSE Return

\* display_expression wakes from time.sleep: the next offset of the scroll, or the return
RobotFace_display_expression_wake ==
    /\ prog = "RobotFace"
    /\ status = "sleeping"
    /\ call.op = "display_expression"
    /\ IF call.scroll /\ i < Width
       THEN /\ position' = i
            /\ FrameAndSleep(FALSE, <<RobotFace_draw_expression(expressions[call.expr])>>,
                             "none", Rat(1, 10))
            /\ Locals(i + 1, Zero, Zero, <<>>)
            /\ UNCHANGED <<prog, expressions, call, contrast>>
       ELSE Return

RobotFace_animate_transition(from_expression, to_expression, steps, duration) ==
    /\ prog = "RobotFace"
    /\ status = "ready"
    /\ call' = CallOf("animate_transition", from_expression, to_expression, steps, <<duration>>,
                      FALSE, 0, <<>>, 0)
    /\ UNCHANGED <<prog, expressions, contrast, position>>
    /\ IF \/ from_expression \notin DOMAIN expressions
          \/ to_expression \notin DOMAIN expressions
       THEN /\ EndAtOnce("ValueError")
            /\ UNCHANGED <<display, lastDraw>>
       ELSE IF steps = 0
       THEN \* step_duration = duration / steps
            /\ EndAtOnce("ZeroDivisionError")
            /\ UNCHANGED <<display, lastDraw>>
       ELSE IF steps + 1 <= 0
       THEN \* range(steps + 1) is empty
            /\ EndAtOnce("returned")
            /\ UNCHANGED <<display, lastDraw>>
       ELSE LET step_duration == RatDivInt(duration, steps)
            IN  /\ FrameAndSleep(TRUE, <<TransitionFrame(expressions[from_expression],
                                                         expressions[to_expression],
                                                         0, steps)>>,
                                 "none", step_duration)
                /\ Locals(1, step_duration, Zero, <<>>)

\* animate_transition wakes from time.sleep: the next frame, or the return
RobotFace_animate_transition_wake ==
    /\ prog = "RobotFace"
    /\ status = "sleeping"
    /\ call.op = "animate_transition"
    /\ IF i < call.steps + 1
       THEN /\ FrameAndSleep(FALSE, <<TransitionFrame(expressions[call.expr],
                                                      expressions[call.to],
                                                      i, call.steps)>>,
                             "none", hold)
            /\ Locals(i + 1, hold, Zero, <<>>)
            /\ UNCHANGED <<prog, expressions, call, contrast, position>>
       ELSE Return

RobotFace_clear ==
    /\ prog = "RobotFace"
    /\ status = "ready"
    /\ call' = CallOf("clear", "", "", 0, <<>>, FALSE, 0, <<>>, 0)
    /\ Push(<<Blank>>)
    /\ EndAtOnce("returned")
    /\ UNCHANGED <<prog, expressions, contrast, position>>

RobotFace_set_brightness(intensity) ==
    /\ prog = "RobotFace"
    /\ status = "ready"
    /\ call' = CallOf("set_brightness", "", "", 0, <<>>, FALSE, 0, <<>>, intensity)
    /\ IF ~ValidIntensity(intensity)
       THEN /\ EndAtOnce("ValueError")
            /\ UNCHANGED contrast
       ELSE /\ contrast' = <<ContrastOf(intensity)>>
            /\ EndAtOnce("returned")
    /\ UNCHANGED <<prog, expressions, display, lastDraw, position>>

\* the body of talk(expression_type, duration, words_per_minute)
RobotFace_talk_body(expression_type, duration, words_per_minute) ==
    IF expression_type \notin DOMAIN expressions
    THEN /\ EndAtOnce("ValueError")
         /\ UNCHANGED <<display, lastDraw>>
    ELSE IF ~SupportsTalking(expressions[expression_type])
    THEN /\ EndAtOnce("ValueError")
         /\ UNCHANGED <<display, lastDraw>>
    ELSE IF words_per_minute = 0
    THEN \* state_duration = 1.0 / states_per_second
         /\ EndAtOnce("ZeroDivisionError")
         /\ UNCHANGED <<display, lastDraw>>
    ELSE LET state_duration == Rat(60, words_per_minute * 5)
         IN  IF RatLess(Zero, duration)
             THEN \* random.choices(states, weights): every state has a positive weight
                  \E talk_state \in TalkState :
                     /\ FrameAndSleep(TRUE,
                                      <<RobotFace_draw_talking_expression(
                                            expressions[expression_type], talk_state)>>,
                                      talk_state, state_duration)
                     /\ Locals(0, state_duration, duration, <<>>)
             ELSE /\ EndAtOnce("returned")
                  /\ UNCHANGED <<display, lastDraw>>

RobotFace_talk(expression_type, duration, words_per_minute) ==
    /\ prog = "RobotFace"
    /\ status = "ready"
    /\ call' = CallOf("talk", expression_type, "", 0, <<duration>>, FALSE, words_per_minute, <<>>, 0)
    /\ UNCHANGED <<prog, expressions, contrast, position>>
    /\ RobotFace_talk_body(expression_type, duration, words_per_minute)

RobotFace_say_phrase(expression_type, phrase, words_per_minute) ==
    /\ prog = "RobotFace"
    /\ status = "ready"
    /\ call' = CallOf("say_phrase", expression_type, "", 0, <<>>, FALSE, words_per_minute, phrase, 0)
    /\ UNCHANGED <<prog, expressions, contrast, position>>
    /\ IF words_per_minute = 0
       THEN \* duration = (word_count * 60) / words_per_minute
            /\ EndAtOnce("ZeroDivisionError")
            /\ UNCHANGED <<display, lastDraw>>
       ELSE RobotFace_talk_body(expression_type, Rat(WordCount(phrase) * 60, words_per_minute),
                                words_per_minute)

\* talk wakes from time.sleep: "while time.time() < end_time" draws again, or talk returns
RobotFace_talk_wake ==
    /\ prog = "RobotFace"
    /\ status = "sleeping"
    /\ call.op \in {"talk", "say_phrase"}
    /\ IF RatLess(slept, end_time)
       THEN \E talk_state \in TalkState :
               /\ FrameAndSleep(FALSE,
                                <<RobotFace_draw_talking_expression(
                                      expressions[call.expr], talk_state)>>,
                                talk_state, hold)
               /\ Locals(0, hold, end_time, <<>>)
               /\ UNCHANGED <<prog, expressions, call, contrast, position>>
       ELSE Return

\* Ctrl-C while the call sleeps: __main__ catches KeyboardInterrupt and calls face.clear()
RobotFace_main_KeyboardInterrupt ==
    /\ prog = "RobotFace"
    /\ status = "sleeping"
    /\ status' = "interrupted"
    /\ outcome' = "KeyboardInterrupt"
    /\ Push(<<Blank>>)
    /\ UNCHANGED <<prog, expressions, call, position, contrast, i, hold, end_time, viseme_seq, shape,
                   nframes, nsleeps, lastSleep, slept>>

(***************************************************************************)
(* MatrixDisplay (display.py).  Each method opens a canvas of its own on   *)
(* the device, so each pushes one image.                                   *)
(***************************************************************************)
\* clear(): a canvas filled black
MatrixDisplay_clear == <<Blank>>

\* draw_lines's test of a segment: both extents non-zero and (the endpoints share x, or
\* share y, or the extents are equal)
is_rectangle(start, end) ==
    /\ Abs(start[1] - end[1]) > 0
    /\ Abs(start[2] - end[2]) > 0
    /\ \/ start[1] = end[1]
       \/ start[2] = end[2]
       \/ Abs(start[1] - end[1]) = Abs(start[2] - end[2])

\* the corners [(x0, y0), (x1, y1)] that draw_lines passes to draw.rectangle
RectangleOf(line) ==
    <<<<Min(line[1][1], line[2][1]), Min(line[1][2], line[2][2])>>,
      <<Max(line[1][1], line[2][1]), Max(line[1][2], line[2][2])>>>>

\* draw_lines(lines): one canvas; each segment is drawn as a filled rectangle when
\* is_rectangle says so, as a line otherwise
MatrixDisplay_draw_lines(lines) ==
    <<[points |-> <<>>,
       lines |-> lines,
       filled |-> {k \in 1..Len(lines) : is_rectangle(lines[k][1], lines[k][2])}]>>

MatrixDisplay_set_brightness(intensity) ==
    /\ prog = "Components"
    /\ status = "ready"
    /\ call' = CallOf("set_brightness", "", "", 0, <<>>, FALSE, 0, <<>>, intensity)
    /\ IF ~ValidIntensity(intensity)
       THEN /\ EndAtOnce("ValueError")
            /\ UNCHANGED contrast
       ELSE /\ contrast' = <<ContrastOf(intensity)>>
            /\ EndAtOnce("returned")
    /\ UNCHANGED <<prog, expressions, display, lastDraw, position>>

MatrixDisplay_clear_call ==
    /\ prog = "Components"
    /\ status = "ready"
    /\ call' = CallOf("clear", "", "", 0, <<>>, FALSE, 0, <<>>, 0)
    /\ Push(MatrixDisplay_clear)
    /\ EndAtOnce("returned")
    /\ UNCHANGED <<prog, expressions, contrast, position>>

(***************************************************************************)
(* FacialExpressions (expressions.py).                                     *)
(***************************************************************************)
\* the images draw_expression pushes for a known expression:
\* self.display.clear(), then self.display.draw_lines(expression.lines)
DrawExpressionImages(expression) ==
    IF expression.lines # <<>>
    THEN MatrixDisplay_clear \o MatrixDisplay_draw_lines(expression.lines)
    ELSE MatrixDisplay_clear

\* a draw_expression that clears the display before it looks the identifier up
FacialExpressions_draw_expression_clear_first(expression_type) ==
    /\ prog = "Components"
    /\ status = "ready"
    /\ call' = CallOf("draw_expression", expression_type, "", 0, <<>>, FALSE, 0, <<>>, 0)
    /\ UNCHANGED <<prog, expressions, contrast, position>>
    /\ IF expression_type \notin DOMAIN expressions
       THEN /\ Push(MatrixDisplay_clear)
            /\ EndAtOnce("ValueError")
       ELSE /\ Push(DrawExpressionImages(expressions[expression_type]))
            /\ status' = "done"
            /\ outcome' = "returned"
            /\ NoLocals
            /\ shape' = "none"
            /\ nframes' = 1
            /\ nsleeps' = 0
            /\ lastSleep' = Zero
            /\ slept' = Zero

FacialExpressions_draw_expression(expression_type) ==
    /\ prog = "Components"
    /\ status = "ready"
    /\ call' = CallOf("draw_expression", expression_type, "", 0, <<>>, FALSE, 0, <<>>, 0)
    /\ UNCHANGED <<prog, expressions, contrast, position>>
    /\ IF expression_type \notin DOMAIN expressions
       THEN /\ EndAtOnce("ValueError")
            /\ UNCHANGED <<display, lastDraw>>
       ELSE /\ Push(DrawExpressionImages(expressions[expression_type]))
            /\ status' = "done"
            /\ outcome' = "returned"
            /\ NoLocals
            /\ shape' = "none"
            /\ nframes' = 1
            /\ nsleeps' = 0
            /\ lastSleep' = Zero
            /\ slept' = Zero

\* a lookup in a catalog that lacks the SLEEPING entry
FacialExpressions_get_expression_missing(expression_type) ==
    /\ prog = "Components"
    /\ status = "ready"
    /\ call' = CallOf("get_expression", expression_type, "", 0, <<>>, FALSE, 0, <<>>, 0)
    /\ UNCHANGED <<prog, expressions, contrast, position, display, lastDraw>>
    /\ IF expression_type \notin DOMAIN expressions \ {"SLEEPING"}
       THEN EndAtOnce("ValueError")
       ELSE EndAtOnce("returned")

\* a lookup that files the neutral face under an identifier the catalog lacks
FacialExpressions_get_expression_setdefault(expression_type) ==
    /\ prog = "Components"
    /\ status = "ready"
    /\ call' = CallOf("get_expression", expression_type, "", 0, <<>>, FALSE, 0, <<>>, 0)
    /\ UNCHANGED <<prog, contrast, position, display, lastDraw>>
    /\ expressions' = [e \in DOMAIN expressions \cup {expression_type} |->
                          IF e \in DOMAIN expressions THEN expressions[e]
                                                      ELSE expressions["NEUTRAL"]]
    /\ EndAtOnce("returned")

FacialExpressions_get_expression(expression_type) ==
    /\ prog = "Components"
    /\ status = "ready"
    /\ call' = CallOf("get_expression", expression_type, "", 0, <<>>, FALSE, 0, <<>>, 0)
    /\ UNCHANGED <<prog, expressions, contrast, position, display, lastDraw>>
    /\ IF expression_type \notin DOMAIN expressions
       THEN EndAtOnce("ValueError")
       ELSE EndAtOnce("returned")

\* an alternation that starts with the target
AlternateExpression_swapped(from_expression, to_expression, k) ==
    IF k % 2 = 0 THEN to_expression ELSE from_expression

\* the expression drawn by iteration k of animate_transition's loop
AlternateExpression(from_expression, to_expression, k) ==
    IF k % 2 = 0 THEN from_expression ELSE to_expression

FacialExpressions_animate_transition(from_expression, to_expression, steps, duration) ==
    /\ prog = "Components"
    /\ status = "ready"
    /\ call' = CallOf("animate_transition", from_expression, to_expression, steps, <<duration>>,
                      FALSE, 0, <<>>, 0)
    /\ UNCHANGED <<prog, expressions, contrast, position>>
    /\ IF \/ from_expression \notin DOMAIN expressions
          \/ to_expression \notin DOMAIN expressions
       THEN /\ EndAtOnce("ValueError")
            /\ UNCHANGED <<display, lastDraw>>
       ELSE IF steps <= 0
       THEN \* range(steps) is empty: only "always end with the target expression"
            /\ Push(DrawExpressionImages(expressions[to_expression]))
            /\ status' = "done"
            /\ outcome' = "returned"
            /\ NoLocals
            /\ shape' = "none"
            /\ nframes' = 1
            /\ nsleeps' = 0
            /\ lastSleep' = Zero
            /\ slept' = Zero
       ELSE /\ FrameAndSleep(TRUE,
                             DrawExpressionImages(expressions[
                                 AlternateExpression(from_expression, to_expression, 0)]),
                             "none", RatDivInt(duration, steps))
            /\ Locals(1, RatDivInt(duration, steps), Zero, <<>>)

\* animate_transition wakes from time.sleep: the next iteration, or the final draw and return
FacialExpressions_animate_transition_wake ==
    /\ prog = "Components"
    /\ status = "sleeping"
    /\ call.op = "animate_transition"
    /\ UNCHANGED <<prog, expressions, call, contrast, position>>
    /\ IF i < call.steps
       THEN /\ FrameAndSleep(FALSE,
                             DrawExpressionImages(expressions[
                                 AlternateExpression(call.expr, call.to, i)]),
                             "none", RatDivInt(call.duration[1], call.steps))
            /\ Locals(i + 1, hold, Zero, <<>>)
       ELSE /\ Push(DrawExpressionImages(expressions[call.to]))
            /\ status' = "done"
            /\ outcome' = "returned"
            /\ nframes' = nframes + 1
            /\ UNCHANGED <<i, hold, end_time, viseme_seq, shape, nsleeps, lastSleep, slept>>

(***************************************************************************)
(* SpeechEngine (speech.py).                                               *)
(***************************************************************************)
\* LETTER_TO_VISEME.get(c, "neutral")
VisemeOf(c) == IF c \in DOMAIN LETTER_TO_VISEME THEN LETTER_TO_VISEME[c] ELSE "neutral"

\* VISEME_MOUTHS.get(viseme, VISEME_MOUTHS["neutral"])
MouthOf(viseme) ==
    IF viseme \in DOMAIN VISEME_MOUTHS THEN VISEME_MOUTHS[viseme] ELSE VISEME_MOUTHS["neutral"]

\* an eye filter whose row boundary is one row too low
EyeLines_below6(expression) ==
    SelectSeq(expression.lines, LAMBDA line : line[1][2] < 6 /\ line[2][2] < 6)

\* [line for line in expression.lines if line[0][1] < 5 and line[1][1] < 5]
EyeLines(expression) ==
    SelectSeq(expression.lines, LAMBDA line : line[1][2] < 5 /\ line[2][2] < 5)

\* the images _draw_viseme pushes: self.display.clear(), then
\* self.display.draw_lines(eye_lines + mouth_lines)
SpeechEngine_draw_viseme(expression, viseme) ==
    MatrixDisplay_clear \o MatrixDisplay_draw_lines(EyeLines(expression) \o MouthOf(viseme))

\* [LETTER_TO_VISEME.get(c, "neutral") for c in phrase if c.isalnum()]
ParseVisemes(phrase) ==
    LET kept == SelectSeq(phrase, isalnum)
    IN  [k \in 1..Len(kept) |-> VisemeOf(kept[k])]

\* total_time = (len(phrase.split()) * 60) / words_per_minute if words_per_minute else 2.0
TotalTime(phrase, words_per_minute) ==
    IF words_per_minute # 0 THEN Rat(WordCount(phrase) * 60, words_per_minute) ELSE Rat(2, 1)

\* a hold of the whole total_time for each viseme
VisemeTime_undivided(total_time, total_visemes) == total_time

\* viseme_time = total_time / total_visemes
VisemeTime(total_time, total_visemes) == RatDivInt(total_time, total_visemes)

\* the hold of the random branch: time.sleep(0.15)
RandomHold == Rat(15, 100)

\* "duration if duration else 2.0": None and 0 both give 2.0
TalkDuration(duration) ==
    IF duration # <<>> /\ duration[1] # Zero THEN duration[1] ELSE Rat(2, 1)

\* _talk_with_visemes(expression, duration, words_per_minute, phrase) up to its first sleep;
\* duration and phrase are optional (<<>> is None)
SpeechEngine_talk_with_visemes(expression, duration, words_per_minute, phrase) ==
    IF phrase # <<>> /\ phrase[1] # <<>>
    THEN LET parsed == ParseVisemes(phrase[1])
             seq == IF parsed = <<>> THEN <<"neutral">> ELSE parsed
             viseme_time == VisemeTime(TotalTime(phrase[1], words_per_minute), Len(seq))
         IN  /\ FrameAndSleep(TRUE, SpeechEngine_draw_viseme(expression, seq[1]), seq[1], viseme_time)
             /\ Locals(1, viseme_time, Zero, seq)
    ELSE IF RatLess(Zero, TalkDuration(duration))
         THEN \* random.choice(visemes)
              \E viseme \in DOMAIN VISEME_MOUTHS :
                 /\ FrameAndSleep(TRUE, SpeechEngine_draw_viseme(expression, viseme), viseme, RandomHold)
                 /\ Locals(0, RandomHold, TalkDuration(duration), <<>>)
         ELSE /\ EndAtOnce("returned")
              /\ UNCHANGED <<display, lastDraw>>

SpeechEngine_talk(expression_type, duration, words_per_minute) ==
    /\ prog = "Components"
    /\ status = "ready"
    /\ call' = CallOf("talk", expression_type, "", 0, duration, FALSE, words_per_minute, <<>>, 0)
    /\ UNCHANGED <<prog, expressions, contrast, position>>
    /\ IF expression_type \notin DOMAIN expressions
       THEN \* get_expression raises
            /\ EndAtOnce("ValueError")
            /\ UNCHANGED <<display, lastDraw>>
       ELSE SpeechEngine_talk_with_visemes(expressions[expression_type],
                                           duration, words_per_minute, <<>>)

SpeechEngine_say_phrase(expression_type, phrase, words_per_minute) ==
    /\ prog = "Components"
    /\ status = "ready"
    /\ call' = CallOf("say_phrase", expression_type, "", 0, <<>>, FALSE, words_per_minute, phrase, 0)
    /\ UNCHANGED <<prog, expressions, contrast, position>>
    /\ IF expression_type \notin DOMAIN expressions
       THEN \* get_expression raises
            /\ EndAtOnce("ValueError")
            /\ UNCHANGED <<display, lastDraw>>
       ELSE SpeechEngine_talk_with_visemes(expressions[expression_type],
                                           <<>>, words_per_minute, <<phrase>>)

\* "for viseme in viseme_seq" wakes from time.sleep: the next viseme, or the return
SpeechEngine_phrase_wake ==
    /\ prog = "Components"
    /\ status = "sleeping"
    /\ call.op \in {"talk", "say_phrase"}
    /\ viseme_seq # <<>>
    /\ IF i < Len(viseme_seq)
       THEN /\ FrameAndSleep(FALSE,
                             SpeechEngine_draw_viseme(expressions[call.expr],
                                                      viseme_seq[i + 1]),
                             viseme_seq[i + 1], hold)
            /\ Locals(i + 1, hold, Zero, viseme_seq)
            /\ UNCHANGED <<prog, expressions, call, contrast, position>>
       ELSE Return

\* "while time.time() < end_time" wakes from time.sleep: another random viseme, or the return
SpeechEngine_random_wake ==
    /\ prog = "Components"
    /\ status = "sleeping"
    /\ call.op \in {"talk", "say_phrase"}
    /\ viseme_seq = <<>>
    /\ IF RatLess(slept, end_time)
       THEN \E viseme \in DOMAIN VISEME_MOUTHS :
               /\ FrameAndSleep(FALSE,
                                SpeechEngine_draw_viseme(expressions[call.expr], viseme),
                                viseme, RandomHold)
               /\ Locals(0, hold, end_time, <<>>)
               /\ UNCHANGED <<prog, expressions, call, contrast, position>>
       ELSE Return

\* Ctrl-C while a call of the component classes sleeps: none of them catches
\* KeyboardInterrupt or cleans up, so the exception leaves the call and
\* the device keeps the last image
Components_KeyboardInterrupt ==
    /\ prog = "Components"
    /\ status = "sleeping"
    /\ status' = "interrupted"
    /\ outcome' = "KeyboardInterrupt"
    /\ UNCHANGED <<prog, expressions, call, display, lastDraw, position, contrast, i, hold, end_time,
                   viseme_seq, shape, nframes, nsleeps, lastSleep, slept>>

\* the caller goes on to its next statement after a call ended (as demo() does between
\* its calls): the device keeps its image, viewport position and contrast, and the
\* bookkeeping of the ended call is forgotten
CallerContinues ==
    /\ status = "done"
    /\ status' = "ready"
    /\ call' = NoCall
    /\ outcome' = "none"
    /\ NoLocals
    /\ shape' = "none"
    /\ nframes' = 0
    /\ nsleeps' = 0
    /\ lastSleep' = Zero
    /\ slept' = Zero
    /\ UNCHANGED <<prog, expressions, display, lastDraw, position, contrast>>

(***************************************************************************)
(* The specification.                                                      *)
(***************************************************************************)
Init ==
    /\ prog \in {"RobotFace", "Components"}
    /\ expressions = (IF prog = "RobotFace" THEN RobotFace_expressions
                                            ELSE FacialExpressions_expressions)
    /\ status = "ready"
    /\ call = NoCall
    /\ outcome = "none"
    /\ display = Blank
    /\ lastDraw = <<>>
    /\ position = 0
    /\ contrast = <<>>
    /\ i = 0
    /\ hold = Zero
    /\ end_time = Zero
    /\ viseme_seq = <<>>
    /\ shape = "none"
    /\ nframes = 0
    /\ nsleeps = 0
    /\ lastSleep = Zero
    /\ slept = Zero

\* the calls a caller of RobotFace can make
RobotFace_calls ==
    \/ \E e \in Ids, d \in OptDurations, scroll \in BOOLEAN : RobotFace_display_expression(e, d, scroll)
    \/ \E a \in Ids, b \in Ids, n \in StepCounts, d \in TransitionDurations :
          RobotFace_animate_transition(a, b, n, d)
    \/ RobotFace_clear
    \/ \E level \in Levels : RobotFace_set_brightness(level)
    \/ \E e \in Ids, d \in Durations, wpm \in Wpms : RobotFace_talk(e, d, wpm)
    \/ \E e \in Ids, phrase \in Phrases, wpm \in Wpms : RobotFace_say_phrase(e, phrase, wpm)

\* the calls a caller of MatrixDisplay, FacialExpressions and SpeechEngine can make
Components_calls ==
    \/ \E level \in Levels : MatrixDisplay_set_brightness(level)
    \/ MatrixDisplay_clear_call
    \/ \E e \in Ids : FacialExpressions_draw_expression(e)
    \/ \E e \in Ids : FacialExpressions_get_expression(e)
    \/ \E a \in Ids, b \in Ids, n \in StepCounts, d \in TransitionDurations :
          FacialExpressions_animate_transition(a, b, n, d)
    \/ \E e \in Ids, d \in OptDurations, wpm \in Wpms : SpeechEngine_talk(e, d, wpm)
    \/ \E e \in Ids, phrase \in Phrases, wpm \in Wpms : SpeechEngine_say_phrase(e, phrase, wpm)

Next ==
    \/ (status = "ready" /\ prog = "RobotFace" /\ RobotFace_calls)
    \/ (status = "ready" /\ prog = "Components" /\ Components_calls)
    \/ RobotFace_display_expression_wake
    \/ RobotFace_animate_transition_wake
    \/ RobotFace_talk_wake
    \/ RobotFace_main_KeyboardInterrupt
    \/ FacialExpressions_animate_transition_wake
    \/ SpeechEngine_phrase_wake
    \/ SpeechEngine_random_wake
    \/ Components_KeyboardInterrupt
    \/ CallerContinues

Spec == Init /\ [][Next]_vars

(***************************************************************************)
(* The claims.                                                             *)
(***************************************************************************)
\* the catalog the program of the behaviour looks its identifiers up in
Catalog == IF prog = "RobotFace" THEN RobotFace_expressions ELSE FacialExpressions_expressions

\* C1: the last frame drawn by RobotFace.animate_transition(A, B, steps, duration) with
\* catalog expressions A and B and steps >= 1 holds exactly the points and lines that
\* _draw_expression(B) draws, also when A and B differ in their numbers of points or lines.
C1_LastFrameIsTarget ==
    (/\ prog = "RobotFace"
     /\ call.op = "animate_transition"
     /\ status = "done"
     /\ outcome = "returned"
     /\ call.steps >= 1)
    => display = RobotFace_draw_expression(RobotFace_expressions[call.to])

\* C2: in untimed talk the shape chosen for a frame differs from the shape drawn in the
\* frame just before it in the same talk call.
C2_NoShapeTwiceInSuccession ==
    [][(/\ call.op = "talk"
        /\ status = "sleeping"
        /\ status' = "sleeping"
        /\ nframes' = nframes + 1)
       => shape' # shape]_vars

\* the characters of a phrase that say_phrase turns into visemes, in phrase order
RECURSIVE SpokenChars(_)
SpokenChars(phrase) ==
    IF phrase = <<>>
    THEN <<>>
    ELSE (IF isalnum(Head(phrase)) THEN <<Head(phrase)>> ELSE <<>>) \o SpokenChars(Tail(phrase))

\* the last n lines of an image: its mouth, when the mouth has n lines
LastLines(image, n) ==
    IF Len(image.lines) < n
    THEN <<>>
    ELSE SubSeq(image.lines, Len(image.lines) - n + 1, Len(image.lines))

\* a say_phrase call of SpeechEngine on a catalog expression
IsSpeechEngineSay ==
    /\ prog = "Components"
    /\ call.op = "say_phrase"
    /\ call.expr \in ExpressionType

\* C3: for a phrase with at least one alphanumeric character (and a positive rate),
\* SpeechEngine.say_phrase draws one frame per such character, in phrase order, the k-th
\* frame's mouth being the table shape of the k-th character's viseme, and each frame is
\* followed by one hold of total_time / len(sequence), total_time = word_count * 60 / wpm;
\* the call returns after the frame of the last character.
C3_OneFramePerViseme ==
    (/\ IsSpeechEngineSay
     /\ SpokenChars(call.phrase) # <<>>
     /\ call.wpm > 0)
    => LET spoken == SpokenChars(call.phrase)
           n == Len(spoken)
           expected_hold == Rat(WordCount(call.phrase) * 60, call.wpm * n)
       IN  /\ nframes \in 1..n
           /\ shape = VisemeOf(spoken[nframes])
           /\ LastLines(display, Len(VISEME_MOUTHS[shape])) = VISEME_MOUTHS[shape]
           /\ lastDraw[Len(lastDraw)] = display
           /\ nsleeps = nframes
           /\ lastSleep = expected_hold
           /\ slept = Rat(nframes * expected_hold[1], expected_hold[2])
           /\ status = "done" => (outcome = "returned" /\ nframes = n)

\* C3's case: say_phrase(HAPPY, "Hi", 150) has returned after two frames, open then wide,
\* each held 0.2 s
C3_Witness ==
    /\ IsSpeechEngineSay
    /\ call.expr = "HAPPY"
    /\ call.phrase = <<"H", "i">>
    /\ call.wpm = 150
    /\ status = "done"
    /\ nframes = 2
    /\ shape = "wide"
    /\ lastSleep = Rat(1, 5)
    /\ slept = Rat(2, 5)

\* C4: the letter-to-viseme table that SpeechEngine looks characters up in has an entry
\* for every letter A-Z in upper and in lower case, each entry is a tag with a mouth shape
\* in VISEME_MOUTHS, and the two cases of a letter map to the same tag.
C4_TableCoversAlphabet ==
    prog = "Components"
    => /\ \A k \in 1..Len(UpperLetters) :
             /\ UpperLetters[k] \in DOMAIN LETTER_TO_VISEME
             /\ LowerLetters[k] \in DOMAIN LETTER_TO_VISEME
             /\ LETTER_TO_VISEME[UpperLetters[k]] = LETTER_TO_VISEME[LowerLetters[k]]
       /\ \A c \in DOMAIN LETTER_TO_VISEME : LETTER_TO_VISEME[c] \in DOMAIN VISEME_MOUTHS

\* a call that names an identifier that is not in the catalog
NamesUnknownExpression(c) ==
    \/ /\ c.op \in {"display_expression", "draw_expression", "get_expression", "talk", "say_phrase"}
       /\ c.expr \notin ExpressionType
    \/ /\ c.op = "animate_transition"
       /\ (c.expr \notin ExpressionType \/ c.to \notin ExpressionType)

\* the step is a call that ends at once with an error and without any effect on the device
FailsWithoutEffect ==
    /\ status' = "done"
    /\ outcome' \in Errors
    /\ display' = display
    /\ lastDraw' = lastDraw
    /\ position' = position
    /\ contrast' = contrast
    /\ nframes' = 0
    /\ nsleeps' = 0

\* C5: a display, transition, talk or say call with an expression identifier that is not in
\* the catalog raises an error before any clear, draw, viewport move or sleep, so the
\* display is unchanged.
C5_UnknownExpressionFailsFirst ==
    [][(status = "ready" /\ NamesUnknownExpression(call')) => FailsWithoutEffect]_vars

\* C5's case: a call with an unknown identifier has failed on a display that shows a face,
\* with the viewport moved by an earlier scroll
C5_Witness ==
    /\ status = "done"
    /\ NamesUnknownExpression(call)
    /\ outcome = "ValueError"
    /\ display # Blank
    /\ position # 0

\* C6: a transition called with steps <= 0 fails with an error, before any frame is drawn
\* or any sleep is taken.
C6_NonPositiveStepsFail ==
    (/\ call.op = "animate_transition"
     /\ call.expr \in ExpressionType
     /\ call.to \in ExpressionType
     /\ call.steps <= 0)
    => (outcome \in Errors /\ nframes = 0 /\ nsleeps = 0)

\* C7: talk() on an expression that has no talk variants fails with an error before any
\* frame is drawn, and so does say_phrase on such an expression.
C7_TalkNeedsTalkVariants ==
    [][(/\ status = "ready"
        /\ call'.op \in {"talk", "say_phrase"}
        /\ call'.expr \in ExpressionType
        /\ DOMAIN Catalog[call'.expr].talk_lines = {})
       => FailsWithoutEffect]_vars

\* C7's case: talk(SAD) with a positive rate and duration has failed on a display that
\* shows a face
C7_Witness ==
    /\ status = "done"
    /\ prog = "RobotFace"
    /\ call.op = "talk"
    /\ call.expr = "SAD"
    /\ call.wpm > 0
    /\ call.duration = <<Rat(1, 1)>>
    /\ outcome = "ValueError"
    /\ display # Blank

\* C8: set_brightness(level) succeeds exactly for 0 <= level <= 15 and then writes
\* contrast level * 16 to the device; for every other integer it raises an error and the
\* device contrast is left unchanged.
C8_BrightnessRange ==
    [][(status = "ready" /\ call'.op = "set_brightness")
       => IF 0 <= call'.level /\ call'.level <= 15
          THEN outcome' = "returned" /\ contrast' = <<call'.level * 16>>
          ELSE outcome' \in Errors /\ contrast' = contrast]_vars

\* C8's case: set_brightness(16) has failed after set_brightness(15) set the contrast to 240
C8_Witness ==
    /\ status = "done"
    /\ call.op = "set_brightness"
    /\ call.level = 16
    /\ outcome = "ValueError"
    /\ contrast = <<240>>

\* C9: if a running talk, say or transition call is interrupted between two frames, the
\* display ends cleared: in every state reached by an interrupt the display is blank.
C9_InterruptLeavesDisplayBlank ==
    status = "interrupted" => display = Blank

\* C10: for a phrase with no alphanumeric character (empty, whitespace-only or
\* punctuation-only) SpeechEngine.say_phrase draws exactly one frame, its mouth is the
\* neutral shape, and no other mouth shape is drawn during the call.
C10_SilentPhraseIsOneNeutralFrame ==
    (IsSpeechEngineSay /\ SpokenChars(call.phrase) = <<>>)
    => /\ nframes = 1
       /\ shape = "neutral"
       /\ LastLines(display, Len(VISEME_MOUTHS["neutral"])) = VISEME_MOUTHS["neutral"]

\* the image a static draw of a catalog expression leaves on the device
StaticImage(e) ==
    IF prog = "RobotFace"
    THEN RobotFace_draw_expression(RobotFace_expressions[e])
    ELSE LET imgs == DrawExpressionImages(FacialExpressions_expressions[e])
         IN  imgs[Len(imgs)]

\* C11: interpolating an expression with itself is a no-op: for every catalog expression E
\* and every steps >= 1, every frame drawn by animate_transition(E, E, steps, duration)
\* holds exactly the points and lines of the static draw of E.
C11_SelfTransitionIsStatic ==
    (/\ call.op = "animate_transition"
     /\ call.expr \in ExpressionType
     /\ call.to = call.expr
     /\ call.steps >= 1
     /\ status \in {"sleeping", "done"})
    => (nframes >= 1 /\ display = StaticImage(call.expr))

\* C11's case: the third frame of RobotFace.animate_transition(WINK, WINK, 3, 1.0), a frame
\* at progress 2/3, shows WINK as its static draw does
C11_Witness ==
    /\ prog = "RobotFace"
    /\ call.op = "animate_transition"
    /\ call.expr = "WINK"
    /\ call.to = "WINK"
    /\ call.steps = 3
    /\ status = "sleeping"
    /\ nframes = 3
    /\ display = RobotFace_draw_expression(RobotFace_expressions["WINK"])

\* C12: drawing one expression causes exactly one visible frame change on the device: the
\* draw pushes one image, so no blank frame is shown between the clear and the drawn
\* primitives.
C12_OneFrameChangePerDraw ==
    (/\ call.op \in {"draw_expression", "display_expression"}
     /\ status \in {"sleeping", "done"}
     /\ nframes >= 1)
    => (Len(lastDraw) = 1 /\ lastDraw[1] # Blank)

\* the pixels a filled rectangle with corners box[1], box[2] lights
BoxPixels(box) == (box[1][1]..box[2][1]) \X (box[1][2]..box[2][2])

\* pixel p lies on the straight line from a to b: within the endpoints' extent and no
\* farther than half a pixel from the ideal line along the minor axis
OnSegment(p, a, b) ==
    /\ Min(a[1], b[1]) <= p[1] /\ p[1] <= Max(a[1], b[1])
    /\ Min(a[2], b[2]) <= p[2] /\ p[2] <= Max(a[2], b[2])
    /\ 2 * Abs((b[2] - a[2]) * (p[1] - a[1]) - (b[1] - a[1]) * (p[2] - a[2]))
          <= Max(Abs(b[1] - a[1]), Abs(b[2] - a[2]))

\* C13: for every segment, MatrixDisplay.draw_lines lights only pixels lying on the
\* straight line between the two endpoints; it never lights a filled area, in particular
\* not for a diagonal segment whose horizontal and vertical extents are equal and non-zero.
C13_DrawLinesLightsOnlyTheLine ==
    \A k \in display.filled :
        \A p \in BoxPixels(RectangleOf(display.lines[k])) :
            OnSegment(p, display.lines[k][1], display.lines[k][2])

\* C14: display_expression(id, scroll=True) sets the viewport to the horizontal offsets
\* 0, 1, ..., width-1 in ascending order, redraws the same expression once after each
\* offset and sleeps 0.1 s after each redraw, so it produces exactly width frames whatever
\* the duration argument is.
C14_ScrollDrawsWidthFrames ==
    (/\ prog = "RobotFace"
     /\ call.op = "display_expression"
     /\ call.scroll
     /\ call.expr \in ExpressionType
     /\ status \in {"sleeping", "done"})
    => /\ nframes \in 1..Width
       /\ position = nframes - 1
       /\ lastDraw = <<RobotFace_draw_expression(RobotFace_expressions[call.expr])>>
       /\ nsleeps = nframes
       /\ lastSleep = Rat(1, 10)
       /\ slept = Rat(nframes, 10)
       /\ status = "done" => (outcome = "returned" /\ nframes = Width)

\* C14's case: display_expression(SAD, duration=0, scroll=True) has returned after 8 frames,
\* the last at offset 7
C14_Witness ==
    /\ prog = "RobotFace"
    /\ call.op = "display_expression"
    /\ call.scroll
    /\ call.expr = "SAD"
    /\ call.duration = <<Rat(0, 1)>>
    /\ status = "done"
    /\ nframes = 8
    /\ position = 7
    /\ slept = Rat(8, 10)

\* C15: every catalog has an entry for each of the seven identifiers, looking any of them
\* up returns an expression, and its lines sequence is non-empty.
C15_CatalogIsComplete ==
    /\ \A e \in ExpressionType : e \in DOMAIN Catalog /\ Catalog[e].lines # <<>>
    /\ (/\ call.op = "get_expression"
        /\ call.expr \in ExpressionType
        /\ status = "done")
       => outcome = "returned"

\* C15's case: get_expression(SLEEPING) has returned
C15_Witness ==
    /\ prog = "Components"
    /\ call.op = "get_expression"
    /\ call.expr = "SLEEPING"
    /\ status = "done"
    /\ outcome = "returned"
    /\ FacialExpressions_expressions["SLEEPING"].lines # <<>>

\* C16: FacialExpressions.animate_transition(A, B, steps, duration) with catalog
\* expressions A and B and steps >= 0 draws A, B, A, ... for steps draws, starting with A,
\* each followed by a sleep of duration/steps, and then ends with a draw of B.
C16_AlternateThenTarget ==
    (/\ prog = "Components"
     /\ call.op = "animate_transition"
     /\ call.expr \in ExpressionType
     /\ call.to \in ExpressionType
     /\ call.steps >= 0
     /\ status \in {"sleeping", "done"})
    => IF status = "sleeping"
       THEN /\ nframes \in 1..call.steps
            /\ lastDraw = DrawExpressionImages(FacialExpressions_expressions[
                              IF nframes % 2 = 1 THEN call.expr ELSE call.to])
            /\ nsleeps = nframes
            /\ lastSleep = RatDivInt(call.duration[1], call.steps)
       ELSE /\ outcome = "returned"
            /\ nframes = call.steps + 1
            /\ nsleeps = call.steps
            /\ call.steps >= 1 => slept = call.duration[1]
            /\ lastDraw = DrawExpressionImages(FacialExpressions_expressions[call.to])

\* C16's case: animate_transition(HAPPY, SAD, 3, 1.0) has drawn its third frame, HAPPY
\* again, after HAPPY and SAD
C16_Witness ==
    /\ prog = "Components"
    /\ call.op = "animate_transition"
    /\ call.expr = "HAPPY"
    /\ call.to = "SAD"
    /\ call.steps = 3
    /\ status = "sleeping"
    /\ nframes = 3
    /\ lastDraw = DrawExpressionImages(FacialExpressions_expressions["HAPPY"])

\* C17: a transition with steps >= 1 draws exactly steps+1 frames and sleeps
\* duration/steps between consecutive frames only: exactly steps sleeps, none after the
\* final frame, so the sleeps total duration.
C17_SleepsOnlyBetweenFrames ==
    (/\ prog = "RobotFace"
     /\ call.op = "animate_transition"
     /\ call.expr \in ExpressionType
     /\ call.to \in ExpressionType
     /\ call.steps >= 1
     /\ status = "done"
     /\ outcome = "returned")
    => /\ nframes = call.steps + 1
       /\ nsleeps = call.steps
       /\ slept = call.duration[1]

\* v is num/den rounded to the nearest integer (either neighbour at a tie)
IsNearest(v, num, den) == 2 * Abs(v * den - num) <= den

\* v = round(a + (b - a) * p) for p = k/steps
IsLinearRounding(v, a, b, k, steps) == IsNearest(v, a * steps + (b - a) * k, steps)

\* v = round(a + (b - a) * smoothstep(p)) for p = k/steps, smoothstep(p) = 3p^2 - 2p^3
IsSmoothstepRounding(v, a, b, k, steps) ==
    IsNearest(v, a * steps * steps * steps + (b - a) * (3 * k * k * steps - 2 * k * k * k),
              steps * steps * steps)

\* the coordinates of a transition frame, each with the matching coordinates of the source
\* and of the target: <<drawn, a, b>>
FrameCoordinates(image, from, to) ==
    {<<image.points[n][c], from.points[n][c], to.points[n][c]>> :
        n \in 1..Len(image.points), c \in 1..2}
    \cup UNION {{<<image.lines[n][e][c], from.lines[n][e][c], to.lines[n][e][c]>> :
                    e \in 1..2, c \in 1..2} : n \in 1..Len(image.lines)}

\* C18: each coordinate drawn by a transition frame at progress p = i/steps equals
\* a + (b - a) * ease(p) rounded to the nearest integer, where a and b are the matching
\* coordinates of the source and the target and ease is the identity or smoothstep.
C18_CoordinatesAreRounded ==
    (/\ prog = "RobotFace"
     /\ call.op = "animate_transition"
     /\ call.expr \in ExpressionType
     /\ call.to \in ExpressionType
     /\ call.steps >= 1
     /\ status = "sleeping")
    => LET coords == FrameCoordinates(display, RobotFace_expressions[call.expr],
                                      RobotFace_expressions[call.to])
       IN  \/ \A t \in coords : IsLinearRounding(t[1], t[2], t[3], nframes - 1, call.steps)
           \/ \A t \in coords : IsSmoothstepRounding(t[1], t[2], t[3], nframes - 1, call.steps)

\* C19: in untimed talk the hold between two consecutive mouth frames is never shorter
\* than 0.1 s, for every positive words-per-minute rate.
C19_HoldHasFloor ==
    (/\ call.op = "talk"
     /\ call.wpm > 0
     /\ status = "sleeping")
    => ~RatLess(lastSleep, Rat(1, 10))

\* the visemes of a phrase when every non-alphabetic character gives a neutral viseme
NeutralPolicy(phrase) ==
    [k \in 1..Len(phrase) |->
        IF phrase[k] \in Upper \cup Lower THEN VisemeOf(phrase[k]) ELSE "neutral"]

\* the visemes of a phrase when every non-alphabetic character is left out
ExcludePolicy(phrase) ==
    LET letters == SelectSeq(phrase, LAMBDA c : c \in Upper \cup Lower)
    IN  [k \in 1..Len(letters) |-> VisemeOf(letters[k])]

\* C20: when SpeechEngine decomposes a phrase into visemes it applies one policy to every
\* non-alphabetic character: each of them (digit, punctuation, whitespace alike) gives a
\* neutral viseme, or each of them is left out of the sequence.
C20_OnePolicyForNonLetters ==
    IsSpeechEngineSay
    => ParseVisemes(call.phrase) \in {NeutralPolicy(call.phrase), ExcludePolicy(call.phrase)}

\* C21: for every catalog expression and every viseme tag, the frame drawn by _draw_viseme
\* holds exactly the expression's eye lines (every line built by the eye helpers, none of
\* the static mouth lines) followed by the table mouth shape of the viseme.
C21_VisemeFrameIsEyesThenMouth ==
    (/\ prog = "Components"
     /\ call.op \in {"talk", "say_phrase"}
     /\ call.expr \in ExpressionType
     /\ status = "sleeping")
    => /\ shape \in DOMAIN VISEME_MOUTHS
       /\ display.lines = Eyes(call.expr) \o VISEME_MOUTHS[shape]
       /\ display.points = <<>>

\* C21's case: a talk frame of ANGRY, whose static mouth has lines in row 5, with the
\* round viseme
C21_Witness ==
    /\ prog = "Components"
    /\ call.op = "talk"
    /\ call.expr = "ANGRY"
    /\ status = "sleeping"
    /\ shape = "round"
    /\ display.lines = Eyes("ANGRY") \o VISEME_MOUTHS["round"]

\* C22: a display that is not in scroll mode draws at the full-frame origin:
\* display_expression(scroll=False), animate_transition and talk render with viewport offset
\* (0, 0), also when an earlier display_expression(scroll=True) has run.
C22_NoScrollDrawsAtOrigin ==
    (/\ prog = "RobotFace"
     /\ call.op \in {"display_expression", "animate_transition", "talk", "say_phrase"}
     /\ ~call.scroll
     /\ nframes >= 1)
    => position = 0

\* C24: with a clock that advances by each sleep, untimed talk with a duration >= 0 and a
\* positive hold draws a frame only at times strictly before start + duration (so it
\* returns after finitely many frames), and talk with duration 0 draws no frame.
C24_TalkDrawsOnlyBeforeEnd ==
    (/\ call.op = "talk"
     /\ call.duration # <<>>
     /\ nframes >= 1)
    => \* the last frame was drawn at slept - lastSleep
       RatLess(slept, RatAdd(call.duration[1], lastSleep))

\* C25: in every frame of RobotFace.animate_transition with steps >= 1 each interpolated
\* coordinate lies between the matching source and target coordinates inclusive, so the
\* frame stays inside the grid.
C25_CoordinatesStayBetween ==
    (/\ prog = "RobotFace"
     /\ call.op = "animate_transition"
     /\ call.expr \in ExpressionType
     /\ call.to \in ExpressionType
     /\ call.steps >= 1
     /\ status \in {"sleeping", "done"})
    => \A t \in FrameCoordinates(display, RobotFace_expressions[call.expr],
                                 RobotFace_expressions[call.to]) :
          /\ Min(t[2], t[3]) <= t[1]
          /\ t[1] <= Max(t[2], t[3])
          /\ t[1] \in 0..(Width - 1)

\* C25's case: the second frame of animate_transition(SAD, HAPPY, 3, 1.0), where the
\* second line moves from row 4 towards row 6
C25_Witness ==
    /\ prog = "RobotFace"
    /\ call.op = "animate_transition"
    /\ call.expr = "SAD"
    /\ call.to = "HAPPY"
    /\ call.steps = 3
    /\ status = "sleeping"
    /\ nframes = 2
    /\ display.lines[2] = L(2, 4, 5, 4)

\* C26: every catalog expression that defines talk variants defines all of OPEN, PARTIAL
\* and CLOSED, its CLOSED variant is the same line sequence as its static lines, a talk
\* frame in state CLOSED is identical to the static draw of the expression, and talk()
\* never falls back to the static lines.
C26_ClosedVariantIsStatic ==
    /\ \A e \in ExpressionType :
          DOMAIN Catalog[e].talk_lines # {}
          => /\ DOMAIN Catalog[e].talk_lines = TalkState
             /\ Catalog[e].talk_lines["CLOSED"] = Catalog[e].lines
    /\ (/\ prog = "RobotFace"
        /\ call.op \in {"talk", "say_phrase"}
        /\ status = "sleeping")
       => /\ shape \in DOMAIN RobotFace_expressions[call.expr].talk_lines
          /\ display.lines = RobotFace_expressions[call.expr].talk_lines[shape]
          /\ shape = "CLOSED"
             => display = RobotFace_draw_expression(RobotFace_expressions[call.expr])

\* C26's case: a talk frame of HAPPY in state CLOSED
C26_Witness ==
    /\ prog = "RobotFace"
    /\ call.op = "talk"
    /\ call.expr = "HAPPY"
    /\ status = "sleeping"
    /\ shape = "CLOSED"
    /\ display = RobotFace_draw_expression(RobotFace_expressions["HAPPY"])


\* C23: the expression catalog is unchanged by every operation: in every state reached by
\* any sequence of display, transition, talk, say, clear, set_brightness and get_expression
\* calls, completed, failed or under way, self.expressions has the identifiers it had right
\* after construction and each maps to the same points, lines and talk variants.
C23_CatalogUnchanged ==
    /\ DOMAIN expressions = DOMAIN Catalog
    /\ \A e \in DOMAIN Catalog :
          /\ expressions[e].points = Catalog[e].points
          /\ expressions[e].lines = Catalog[e].lines
          /\ expressions[e].talk_lines = Catalog[e].talk_lines

\* a talk has drawn viseme frames on a face whose brightness an earlier call set, and
\* the catalog is the constructed one
C23_Witness ==
    /\ prog = "Components"
    /\ call.op = "talk"
    /\ status = "done"
    /\ nframes >= 2
    /\ contrast # <<>>
    /\ display.lines # expressions[call.expr].lines
    /\ expressions = FacialExpressions_expressions

====
